---- MODULE Spec2Model ----
(***************************************************************************)
(* Rockchip OTP driver (drivers/nvmem/rockchip-otp.c): the dispatcher      *)
(* rockchip_otp_read, the three read engines px30_otp_read (GEN-A),        *)
(* rk3568_otp_read (GEN-B) and rk3588_otp_read (GEN-C), their helpers, and *)
(* a register-level model of the controller they talk to.                  *)
(***************************************************************************)
EXTENDS Integers, Sequences, FiniteSets, TLC

(* ------------------------------ bounds -------------------------------- *)
\* number of concurrent callers of rockchip_otp_read (each issues one read)
NumReaders == 2
\* fuse size in bytes used for rockchip_data.size (0x40/0x80/0x400 in the table)
FuseSize == 5
\* largest byte count a caller asks for
MaxLen == 2
\* poll iterations readl_poll_timeout_atomic makes before it gives up
\* (OTPC_TIMEOUT microseconds at a 1 us period in the source)
MaxPolls == 1

(* -------------------------- program constants ------------------------- *)
OTPC_SBPI_CTRL == 32
OTPC_SBPI_CMD_VALID_PRE == 36
OTPC_USER_CTRL == 256
OTPC_USER_ADDR == 260
OTPC_USER_ENABLE == 264
OTPC_USER_QP == 288
OTPC_USER_Q == 292
OTPC_INT_STATUS == 772
OTPC_SBPI_CMD0_OFFSET == 4096
OTPC_SBPI_CMD1_OFFSET == 4100
OTPC_SBPI_DONE == 2
OTPC_USER_DONE == 4
SBPI_DAP_ADDR == 2
SBPI_DAP_ADDR_SHIFT == 8
SBPI_DAP_CMD_WRF == 192
SBPI_DAP_REG_ECC == 58
SBPI_ECC_ENABLE == 0
SBPI_ECC_DISABLE == 9
RK3568_NBYTES == 2
RK3588_OTPC_AUTO_CTRL == 4
RK3588_OTPC_AUTO_EN == 8
RK3588_OTPC_INT_ST == 132
RK3588_OTPC_DOUT0 == 32
RK3588_NO_SECURE_OFFSET == 768
RK3588_NBYTES == 4
RK3588_BURST_NUM == 1
RK3588_BURST_SHIFT == 8
RK3588_AUTO_EN == 1
RK3588_RD_DONE == 2
ENOMEM == 12
EIO == 5
EINVAL == 22
ETIMEDOUT == 110

(* ------------------------- 32-bit register words ---------------------- *)
\* A u32 is kept as its two 16-bit halves: the controller's write-masked
\* registers carry the write-enable mask in the high half, the value in the low.
Half == 65536

U32(h, l) == [hi |-> h % Half, lo |-> l % Half]

RECURSIVE BitAnd16(_, _)
BitAnd16(a, b) ==
    IF a = 0 \/ b = 0 THEN 0
    ELSE ((a % 2) * (b % 2)) + 2 * BitAnd16(a \div 2, b \div 2)

RECURSIVE BitOr16(_, _)
BitOr16(a, b) ==
    IF a = 0 THEN b
    ELSE IF b = 0 THEN a
    ELSE (IF (a % 2) + (b % 2) > 0 THEN 1 ELSE 0) + 2 * BitOr16(a \div 2, b \div 2)

Or32(x, y) == [hi |-> BitOr16(x.hi, y.hi), lo |-> BitOr16(x.lo, y.lo)]
\* a 16-bit quantity shifted left by 16
Shl16(a) == U32(a, 0)

\* GENMASK(31, 16), the value of OTPC_USER_ADDR_MASK and SBPI_CMD_VALID_MASK
GENMASK_31_16 == U32(Half - 1, 0)
\* GENMASK(16, 16), the value of the three one-bit write-enable masks
GENMASK_16_16 == U32(1, 0)
\* GENMASK(31, 24), the value of SBPI_DAP_ADDR_MASK
GENMASK_31_24 == U32(255 * 256, 0)

OTPC_USER_ADDR_MASK == GENMASK_31_16
OTPC_USE_USER == U32(0, 1)
OTPC_USE_USER_MASK == GENMASK_16_16
OTPC_USER_FSM_ENABLE == U32(0, 1)
OTPC_USER_FSM_ENABLE_MASK == GENMASK_16_16
SBPI_DAP_ADDR_MASK == GENMASK_31_24
SBPI_CMD_VALID_MASK == GENMASK_31_16
SBPI_ENABLE == U32(0, 1)
SBPI_ENABLE_MASK == GENMASK_16_16

(* ------------------------------ the fuses ----------------------------- *)
Readers == 1..NumReaders
\* the value the model keeps in a byte of the caller's buffer nobody wrote
Unwritten == -1

\* the fuse image: byte i holds 0x11 * (i + 1)
FuseImage == [i \in 0..(FuseSize - 1) |-> 17 * (i + 1)]
FuseByte(i) == IF i \in DOMAIN FuseImage THEN FuseImage[i] ELSE 0
\* the slice [from, from + n) of the fuse image, as a sequence
FuseSlice(from, n) == [k \in 1..n |-> FuseByte(from + k - 1)]


(* ------------------------------- state -------------------------------- *)
VARIABLES
    gen,     \* otp->data->reg_read, the engine bound to the controller: "A", "B"
             \* or "C" ("none": a context whose descriptor binds no engine)
    lock,    \* otp->lock: 0 when free, else the reader that holds it
    rd,      \* per reader: its position in the code and its C locals
    hw,      \* the controller: clocks, reset line, registers, running cycle
    heap,    \* scratch buffers allocated and not yet freed
    trace,   \* per reader: the clock, reset, allocator and register operations
             \* of its call, in order
    wrun,    \* per reader, the run of register writes of its call as the
             \* controller saw it: "none" (no write yet), "open" (its writes so
             \* far are consecutive), "cut" (another reader wrote after them),
             \* "split" (it wrote again after being cut)
    timedout \* a read on this controller has failed with -ETIMEDOUT in a poll

vars == <<gen, lock, rd, hw, heap, trace, wrun, timedout>>

Zero32 == U32(0, 0)

Ev(r, op, reg, v) == [who |-> r, op |-> op, reg |-> reg, val |-> v]
Log(e) ==
    /\ trace' = [trace EXCEPT ![e.who] = Append(@, e)]
    /\ wrun' = IF e.op = "writel"
               THEN [q \in Readers |->
                        IF q = e.who
                        THEN (IF wrun[q] \in {"cut", "split"} THEN "split" ELSE "open")
                        ELSE (IF wrun[q] = "open" THEN "cut" ELSE wrun[q])]
               ELSE wrun
    /\ UNCHANGED timedout

InitReader ==
    [pc |-> "idle",
     req_off |-> 0, req_len |-> 0,       \* the request as the caller made it
     offset |-> 0, bytes |-> 0,          \* the engine's parameters (it changes them)
     val |-> <<>>, vpos |-> 1,           \* the caller's buffer, the engine's cursor in it
     ret |-> 0,
     addr_start |-> 0, addr_end |-> 0, addr_offset |-> 0, addr_len |-> 0,
     i |-> 0, buf |-> <<>>, otp_qp |-> 0, out_value |-> Zero32,
     enable |-> FALSE, k |-> 0,          \* px30_otp_ecc_enable: its argument, its next write
     flag |-> 0, polls |-> 0,            \* wait_status: its argument, iterations made
     ra |-> "", wra |-> "",              \* where the helper / wait_status returns to
     fail |-> "none",                    \* the first sub-step that failed, if any
     rst_in |-> FALSE]                   \* the reset line as the engine found it

InitHw ==
    [clk |-> 0,            \* enable count of the clock group
     rst |-> FALSE,        \* the reset line is asserted
     use_user |-> FALSE,   \* OTPC_USER_CTRL bit 0
     user_addr |-> 0,      \* OTPC_USER_ADDR
     auto_ctrl |-> Zero32, \* RK3588_OTPC_AUTO_CTRL
     cmd1 |-> 0,           \* SBPI command slot 1
     ecc |-> FALSE,        \* the macro's ECC check, as the last SBPI command left it
     int_st |-> 0,         \* the sticky interrupt status bits
     busy |-> "idle",      \* the cycle in flight: "idle", "sbpi", "user" or "auto"
     q |-> Zero32,         \* OTPC_USER_Q / RK3588_OTPC_DOUT0
     qp |-> 0]             \* OTPC_USER_QP

Init ==
    /\ gen \in {"A", "B", "C"}
    /\ lock = 0
    /\ rd = [r \in Readers |-> InitReader]
    /\ hw = InitHw
    /\ heap = 0
    /\ trace = [r \in Readers |-> <<>>]
    /\ wrun = [r \in Readers |-> "none"]
    /\ timedout = FALSE

Upd(r, rec) == rd' = [rd EXCEPT ![r] = rec]

(* ---------------------------- the controller -------------------------- *)
\* what the macro returns for a cycle at the latched address
FuseWord16(a) == U32(0, FuseByte(2 * a) + 256 * FuseByte(2 * a + 1))
FuseWord32(a) ==
    U32(FuseByte(4 * a + 2) + 256 * FuseByte(4 * a + 3),
        FuseByte(4 * a) + 256 * FuseByte(4 * a + 1))
\* what the auto-sequencer returns below the non-secure region
SecureWord == U32(57005, 48879)
AutoWord(a) ==
    IF a >= RK3588_NO_SECURE_OFFSET THEN FuseWord32(a - RK3588_NO_SECURE_OFFSET)
    ELSE SecureWord

\* the effect of a 32-bit store to a controller register
HwWrite(h, reg, v) ==
    IF gen = "C" THEN
        CASE reg = RK3588_OTPC_AUTO_CTRL -> [h EXCEPT !.auto_ctrl = v]
          [] reg = RK3588_OTPC_AUTO_EN ->
                IF v.lo % 2 = 1 THEN [h EXCEPT !.busy = "auto"] ELSE h
          [] reg = RK3588_OTPC_INT_ST ->
                [h EXCEPT !.int_st = @ - BitAnd16(@, v.lo)]
          [] OTHER -> h
    ELSE
        CASE reg = OTPC_USER_CTRL ->
                IF v.hi % 2 = 1 THEN [h EXCEPT !.use_user = (v.lo % 2 = 1)] ELSE h
          [] reg = OTPC_USER_ADDR ->
                [h EXCEPT !.user_addr = BitAnd16(v.lo, v.hi)]
          [] reg = OTPC_USER_ENABLE ->
                IF v.hi % 2 = 1 /\ v.lo % 2 = 1 /\ h.use_user
                THEN [h EXCEPT !.busy = "user"] ELSE h
          [] reg = OTPC_SBPI_CMD1_OFFSET -> [h EXCEPT !.cmd1 = v.lo]
          [] reg = OTPC_SBPI_CTRL ->
                IF v.hi % 2 = 1 /\ v.lo % 2 = 1
                THEN [h EXCEPT !.busy = "sbpi"] ELSE h
          [] reg = OTPC_INT_STATUS ->
                [h EXCEPT !.int_st = @ - BitAnd16(@, v.lo)]
          [] OTHER -> h

\* writel(v, otp->base + reg) by reader r
Writel(r, reg, v) ==
    /\ hw' = HwWrite(hw, reg, v)
    /\ Log(Ev(r, "writel", reg, v))

\* the cycle in flight completes: the macro latches its data and raises the
\* sticky done bit; qps are the parity/status words it may report
HwDone(qps) ==
    /\ hw.busy # "idle"
    /\ hw.clk > 0
    /\ \E qp \in qps :
         hw' = CASE hw.busy = "sbpi" ->
                      [hw EXCEPT !.busy = "idle",
                                 !.ecc = (hw.cmd1 = SBPI_ECC_ENABLE),
                                 !.int_st = BitOr16(@, OTPC_SBPI_DONE)]
                 [] hw.busy = "user" ->
                      [hw EXCEPT !.busy = "idle",
                                 !.q = IF gen = "A" THEN U32(0, FuseByte(hw.user_addr))
                                       ELSE FuseWord16(hw.user_addr),
                                 !.qp = IF hw.ecc THEN qp ELSE 0,
                                 !.int_st = BitOr16(@, OTPC_USER_DONE)]
                 [] OTHER ->
                      [hw EXCEPT !.busy = "idle",
                                 !.q = AutoWord(hw.auto_ctrl.hi),
                                 !.int_st = BitOr16(@, RK3588_RD_DONE)]
    /\ UNCHANGED <<gen, lock, rd, heap, trace, wrun, timedout>>

(* ----------------------------- dispatcher ----------------------------- *)
\* the status initialised to success: int ret = 0
CallRetZero(r) ==
    /\ rd[r].pc = "idle"
    /\ Upd(r, [rd[r] EXCEPT !.pc = "mutex_lock", !.ret = 0])
    /\ UNCHANGED <<gen, lock, hw, heap, trace, wrun, timedout>>

\* a caller enters rockchip_otp_read(context, offset, val, bytes) and reaches
\* mutex_lock; its arguments are its own until the engine reads them, so the
\* model draws them when the caller gets the lock
Call(r) ==
    /\ rd[r].pc = "idle"
    /\ Upd(r, [rd[r] EXCEPT !.pc = "mutex_lock", !.ret = -EINVAL])
    /\ UNCHANGED <<gen, lock, hw, heap, trace, wrun, timedout>>

\* the arguments of the call: offset o, bytes n, and a buffer of n bytes
WithArgs(rec, o, n) ==
    [rec EXCEPT !.req_off = o, !.req_len = n,
                !.offset = o, !.bytes = n,
                !.val = [j \in 1..n |-> Unwritten]]

\* the requests a caller can make: the nvmem core clips GEN-A/B requests to
\* the registered size
Requests ==
    {<<o, n>> \in (0..FuseSize) \X (0..MaxLen) :
        gen \in {"A", "B"} => o + n <= FuseSize}

\* a lock that excludes nobody
MutexLockNoExclusion(r, reqs) ==
    /\ rd[r].pc = "mutex_lock"
    /\ lock' = r
    /\ \E q \in reqs : Upd(r, [WithArgs(rd[r], q[1], q[2]) EXCEPT !.pc = "dispatch"])
    /\ UNCHANGED <<gen, hw, heap, trace, wrun, timedout>>

\* mutex_lock(&otp->lock); reqs are the requests the caller may be making
MutexLock(r, reqs) ==
    /\ rd[r].pc = "mutex_lock"
    /\ lock = 0
    /\ lock' = r
    /\ \E q \in reqs : Upd(r, [WithArgs(rd[r], q[1], q[2]) EXCEPT !.pc = "dispatch"])
    /\ UNCHANGED <<gen, hw, heap, trace, wrun, timedout>>

\* if (otp->data && otp->data->reg_read) ret = otp->data->reg_read(...)
Dispatch(r) ==
    /\ rd[r].pc = "dispatch"
    /\ Upd(r, [rd[r] EXCEPT !.rst_in = hw.rst,
                            !.pc = CASE gen = "A" -> "px30_clk_enable"
                                      [] gen = "B" -> "rk3568_addr"
                                      [] gen = "C" -> "rk3588_range"
                                      [] OTHER -> "mutex_unlock"])
    /\ UNCHANGED <<gen, lock, hw, heap, trace, wrun, timedout>>

\* mutex_unlock; return ret: the call is over, its locals and its trace go
MutexUnlock(r) ==
    /\ rd[r].pc = "mutex_unlock"
    /\ lock' = 0
    /\ Upd(r, [InitReader EXCEPT !.pc = "done"])
    /\ trace' = [trace EXCEPT ![r] = <<>>]
    /\ wrun' = [wrun EXCEPT ![r] = IF @ = "split" THEN @ ELSE "none"]
    /\ UNCHANGED <<gen, hw, heap, timedout>>

\* the engine's return x: back in rockchip_otp_read with ret = x
Return(rec, x) == [rec EXCEPT !.pc = "mutex_unlock", !.ret = x]

(* ------------------------ clock, reset, wait -------------------------- *)
\* clk_bulk_prepare_enable: e = 0, or the error it failed with (nothing enabled)
ClkEnable(r, e) ==
    IF e = 0
    THEN /\ hw' = [hw EXCEPT !.clk = @ + 1]
         /\ Log(Ev(r, "clk_enable", 0, Zero32))
    ELSE /\ hw' = hw
         /\ Log(Ev(r, "clk_enable_failed", 0, Zero32))

\* clk_bulk_disable_unprepare
ClkDisable(r) ==
    /\ hw' = [hw EXCEPT !.clk = IF @ > 0 THEN @ - 1 ELSE 0]
    /\ Log(Ev(r, "clk_disable", 0, Zero32))

\* rockchip_otp_reset, first half: reset_control_assert
ResetAssert(r, e) ==
    /\ rd[r].pc = "reset_assert"
    /\ IF e = 0
       THEN /\ hw' = [hw EXCEPT !.rst = TRUE]
            /\ Log(Ev(r, "reset_assert", 0, Zero32))
            /\ Upd(r, [rd[r] EXCEPT !.pc = "reset_deassert"])
       ELSE /\ hw' = hw
            /\ Log(Ev(r, "reset_assert_failed", 0, Zero32))
            /\ Upd(r, [rd[r] EXCEPT !.pc = rd[r].ra, !.ret = e, !.fail = "reset_assert"])
    /\ UNCHANGED <<gen, lock, heap>>

\* a deassert that reports success without releasing the line
ResetDeassertKeepsLine(r, e) ==
    /\ rd[r].pc = "reset_deassert"
    /\ hw' = hw
    /\ Log(Ev(r, IF e = 0 THEN "reset_deassert" ELSE "reset_deassert_failed", 0, Zero32))
    /\ Upd(r, [rd[r] EXCEPT !.pc = rd[r].ra, !.ret = e,
                            !.fail = IF e = 0 THEN @ ELSE "reset_deassert"])
    /\ UNCHANGED <<gen, lock, heap>>

\* rockchip_otp_reset, second half: udelay(2); reset_control_deassert
ResetDeassert(r, e) ==
    /\ rd[r].pc = "reset_deassert"
    /\ IF e = 0
       THEN /\ hw' = [hw EXCEPT !.rst = FALSE]
            /\ Log(Ev(r, "reset_deassert", 0, Zero32))
            /\ Upd(r, [rd[r] EXCEPT !.pc = rd[r].ra, !.ret = 0])
       ELSE /\ hw' = hw
            /\ Log(Ev(r, "reset_deassert_failed", 0, Zero32))
            /\ Upd(r, [rd[r] EXCEPT !.pc = rd[r].ra, !.ret = e, !.fail = "reset_deassert"])
    /\ UNCHANGED <<gen, lock, heap>>

\* the status register the generation polls
IntStatusReg == IF gen = "C" THEN RK3588_OTPC_INT_ST ELSE OTPC_INT_STATUS

\* a poll with no timeout: it spins until the bit is set
WaitPollNoTimeout(r, giveup) ==
    /\ rd[r].pc = "wait_poll"
    /\ IF BitAnd16(hw.int_st, rd[r].flag) # 0
       THEN Upd(r, [rd[r] EXCEPT !.pc = "wait_clear"])
       ELSE Upd(r, rd[r])
    /\ UNCHANGED <<gen, lock, hw, heap, trace, wrun, timedout>>

\* px30_otp_wait_status / rk3588_otp_wait_status: one iteration of
\* readl_poll_timeout_atomic; giveup tells whether the bit may stay low for
\* the whole window
WaitPoll(r, giveup) ==
    /\ rd[r].pc = "wait_poll"
    /\ IF BitAnd16(hw.int_st, rd[r].flag) # 0
       THEN /\ Upd(r, [rd[r] EXCEPT !.pc = "wait_clear"])
            /\ UNCHANGED timedout
       ELSE IF rd[r].polls < MaxPolls
       THEN /\ Upd(r, [rd[r] EXCEPT !.polls = @ + 1])
            /\ UNCHANGED timedout
       ELSE /\ giveup
            /\ Upd(r, [rd[r] EXCEPT !.pc = rd[r].wra, !.ret = -ETIMEDOUT,
                                    !.fail = IF @ = "none" THEN "timeout" ELSE @])
            /\ timedout' = TRUE
    /\ UNCHANGED <<gen, lock, hw, heap, trace, wrun>>

\* clean int status: writel(flag, INT_STATUS); return 0
WaitClear(r) ==
    /\ rd[r].pc = "wait_clear"
    /\ Writel(r, IntStatusReg, U32(0, rd[r].flag))
    /\ Upd(r, [rd[r] EXCEPT !.pc = rd[r].wra, !.ret = 0])
    /\ UNCHANGED <<gen, lock, heap>>

\* entering wait_status(otp, flag), to return to pc back
CallWait(rec, flag, back) ==
    [rec EXCEPT !.pc = "wait_poll", !.flag = flag, !.polls = 0, !.wra = back]

(* ------------------------- px30_otp_ecc_enable ------------------------ *)
\* the five stores of the SBPI sequence, in order
EccWrites(enable) ==
    << <<OTPC_SBPI_CTRL,
         Or32(SBPI_DAP_ADDR_MASK, U32(0, SBPI_DAP_ADDR * (2 ^ SBPI_DAP_ADDR_SHIFT)))>>,
       <<OTPC_SBPI_CMD_VALID_PRE, Or32(SBPI_CMD_VALID_MASK, U32(0, 1))>>,
       <<OTPC_SBPI_CMD0_OFFSET, U32(0, BitOr16(SBPI_DAP_CMD_WRF, SBPI_DAP_REG_ECC))>>,
       <<OTPC_SBPI_CMD1_OFFSET,
         U32(0, IF enable THEN SBPI_ECC_ENABLE ELSE SBPI_ECC_DISABLE)>>,
       <<OTPC_SBPI_CTRL, Or32(SBPI_ENABLE_MASK, SBPI_ENABLE)>> >>

EccWrite(r) ==
    /\ rd[r].pc = "ecc_write"
    /\ LET w == EccWrites(rd[r].enable)[rd[r].k] IN
         /\ Writel(r, w[1], w[2])
         /\ IF rd[r].k < Len(EccWrites(rd[r].enable))
            THEN Upd(r, [rd[r] EXCEPT !.k = @ + 1])
            ELSE Upd(r, CallWait(rd[r], OTPC_SBPI_DONE, "ecc_ret"))
    /\ UNCHANGED <<gen, lock, heap>>

\* if (ret < 0) dev_err(...); return ret
EccRet(r) ==
    /\ rd[r].pc = "ecc_ret"
    /\ Upd(r, [rd[r] EXCEPT !.pc = rd[r].ra])
    /\ UNCHANGED <<gen, lock, hw, heap, trace, wrun, timedout>>

\* entering px30_otp_ecc_enable(otp, enable), to return to pc back
CallEcc(rec, enable, back) ==
    [rec EXCEPT !.pc = "ecc_write", !.enable = enable, !.k = 1, !.ra = back]

\* entering rockchip_otp_reset(otp), to return to pc back
CallReset(rec, back) == [rec EXCEPT !.pc = "reset_assert", !.ra = back]

(* ---------------------------- px30_otp_read --------------------------- *)
\* the engine without its reset pulse: it goes on to the ECC command at once
Px30ClkEnableNoReset(r, e) ==
    /\ rd[r].pc = "px30_clk_enable"
    /\ ClkEnable(r, e)
    /\ IF e = 0
       THEN Upd(r, CallEcc([rd[r] EXCEPT !.ret = 0], FALSE, "px30_ecc_ret"))
       ELSE Upd(r, Return([rd[r] EXCEPT !.fail = "clk"], e))
    /\ UNCHANGED <<gen, lock, heap>>

Px30ClkEnable(r, e) ==
    /\ rd[r].pc = "px30_clk_enable"
    /\ ClkEnable(r, e)
    /\ IF e = 0
       THEN Upd(r, CallReset([rd[r] EXCEPT !.ret = 0], "px30_reset_ret"))
       ELSE Upd(r, Return([rd[r] EXCEPT !.fail = "clk"], e))
    /\ UNCHANGED <<gen, lock, heap>>

\* a failed reset returns at once instead of going to disable_clks
Px30ResetRetEarlyReturn(r) ==
    /\ rd[r].pc = "px30_reset_ret"
    /\ IF rd[r].ret # 0
       THEN Upd(r, Return(rd[r], rd[r].ret))
       ELSE Upd(r, CallEcc(rd[r], FALSE, "px30_ecc_ret"))
    /\ UNCHANGED <<gen, lock, hw, heap, trace, wrun, timedout>>

Px30ResetRet(r) ==
    /\ rd[r].pc = "px30_reset_ret"
    /\ IF rd[r].ret # 0
       THEN Upd(r, [rd[r] EXCEPT !.pc = "px30_disable_clks"])
       ELSE Upd(r, CallEcc(rd[r], FALSE, "px30_ecc_ret"))
    /\ UNCHANGED <<gen, lock, hw, heap, trace, wrun, timedout>>

Px30EccRet(r) ==
    /\ rd[r].pc = "px30_ecc_ret"
    /\ IF rd[r].ret < 0
       THEN Upd(r, [rd[r] EXCEPT !.pc = "px30_disable_clks"])
       ELSE Upd(r, [rd[r] EXCEPT !.pc = "px30_use_user"])
    /\ UNCHANGED <<gen, lock, hw, heap, trace, wrun, timedout>>

Px30UseUser(r) ==
    /\ rd[r].pc = "px30_use_user"
    /\ Writel(r, OTPC_USER_CTRL, Or32(OTPC_USE_USER, OTPC_USE_USER_MASK))
    /\ Upd(r, [rd[r] EXCEPT !.pc = "px30_loop"])
    /\ UNCHANGED <<gen, lock, heap>>

\* while (bytes--)
Px30Loop(r) ==
    /\ rd[r].pc = "px30_loop"
    /\ IF rd[r].bytes # 0
       THEN Upd(r, [rd[r] EXCEPT !.bytes = @ - 1, !.pc = "px30_addr"])
       ELSE Upd(r, [rd[r] EXCEPT !.pc = "px30_read_end"])
    /\ UNCHANGED <<gen, lock, hw, heap, trace, wrun, timedout>>

\* the loop without offset++: every cycle programs the first address
Px30AddrNoAdvance(r) ==
    /\ rd[r].pc = "px30_addr"
    /\ Writel(r, OTPC_USER_ADDR, Or32(U32(0, rd[r].offset), OTPC_USER_ADDR_MASK))
    /\ Upd(r, [rd[r] EXCEPT !.pc = "px30_fsm"])
    /\ UNCHANGED <<gen, lock, heap>>

Px30Addr(r) ==
    /\ rd[r].pc = "px30_addr"
    /\ Writel(r, OTPC_USER_ADDR, Or32(U32(0, rd[r].offset), OTPC_USER_ADDR_MASK))
    /\ Upd(r, [rd[r] EXCEPT !.offset = @ + 1, !.pc = "px30_fsm"])
    /\ UNCHANGED <<gen, lock, heap>>

Px30Fsm(r) ==
    /\ rd[r].pc = "px30_fsm"
    /\ Writel(r, OTPC_USER_ENABLE, Or32(OTPC_USER_FSM_ENABLE, OTPC_USER_FSM_ENABLE_MASK))
    /\ Upd(r, CallWait(rd[r], OTPC_USER_DONE, "px30_wait_ret"))
    /\ UNCHANGED <<gen, lock, heap>>

\* the result of the poll ignored: the data register is read in any case
Px30WaitRetIgnoresError(r) ==
    /\ rd[r].pc = "px30_wait_ret"
    /\ Upd(r, [rd[r] EXCEPT !.pc = "px30_readb"])
    /\ UNCHANGED <<gen, lock, hw, heap, trace, wrun, timedout>>

Px30WaitRet(r) ==
    /\ rd[r].pc = "px30_wait_ret"
    /\ IF rd[r].ret < 0
       THEN Upd(r, [rd[r] EXCEPT !.pc = "px30_read_end"])
       ELSE Upd(r, [rd[r] EXCEPT !.pc = "px30_readb"])
    /\ UNCHANGED <<gen, lock, hw, heap, trace, wrun, timedout>>

\* *buf++ = readb(otp->base + OTPC_USER_Q)
Px30Readb(r) ==
    /\ rd[r].pc = "px30_readb"
    /\ Log(Ev(r, "readb", OTPC_USER_Q, U32(0, hw.q.lo % 256)))
    /\ Upd(r, [rd[r] EXCEPT !.val[rd[r].vpos] = hw.q.lo % 256,
                            !.vpos = @ + 1, !.pc = "px30_loop"])
    /\ UNCHANGED <<gen, lock, hw, heap>>

Px30ReadEnd(r) ==
    /\ rd[r].pc = "px30_read_end"
    /\ Writel(r, OTPC_USER_CTRL, Or32(Zero32, OTPC_USE_USER_MASK))
    /\ Upd(r, [rd[r] EXCEPT !.pc = "px30_disable_clks"])
    /\ UNCHANGED <<gen, lock, heap>>

Px30DisableClks(r) ==
    /\ rd[r].pc = "px30_disable_clks"
    /\ ClkDisable(r)
    /\ Upd(r, Return(rd[r], rd[r].ret))
    /\ UNCHANGED <<gen, lock, heap>>

(* --------------------- word-granular engines: helpers ----------------- *)
rounddown(x, y) == x - (x % y)
roundup(x, y) == ((x + (y - 1)) \div y) * y

\* the bytes of a u32 in memory (little-endian)
Bytes32(w) == <<w.lo % 256, w.lo \div 256, w.hi % 256, w.hi \div 256>>

\* memcpy(&buf[i], &out_value, n)
MemcpyWord(buf, i, w, n) ==
    [j \in 1..Len(buf) |-> IF j > i /\ j <= i + n THEN Bytes32(w)[j - i] ELSE buf[j]]

\* the copy-out without the leading offset: memcpy(val, buf, bytes)
MemcpyOutNoOffset(val, buf, addr_offset, bytes) ==
    [j \in 1..Len(val) |-> IF j <= bytes THEN buf[j] ELSE val[j]]

\* memcpy(val, buf + addr_offset, bytes)
MemcpyOut(val, buf, addr_offset, bytes) ==
    [j \in 1..Len(val) |-> IF j <= bytes THEN buf[addr_offset + j] ELSE val[j]]

\* buf = kzalloc(array3_size(addr_len, nbytes, 1)); ok = FALSE: it returns NULL
Kzalloc(r, rec, nbytes, ok, next) ==
    \* a zero-size request gets ZERO_SIZE_PTR: it cannot fail
    /\ ok \/ rec.addr_len * nbytes > 0
    /\ IF ok
       THEN /\ heap' = heap + 1
            /\ Log(Ev(r, "kzalloc", 0, Zero32))
            /\ Upd(r, [rec EXCEPT !.buf = [j \in 1..(rec.addr_len * nbytes) |-> 0],
                                  !.pc = next])
       ELSE /\ heap' = heap
            /\ Log(Ev(r, "kzalloc_failed", 0, Zero32))
            /\ Upd(r, Return([rec EXCEPT !.fail = "oom"], -ENOMEM))

\* out: kfree(buf); return ret
Kfree(r) ==
    /\ heap' = IF heap > 0 THEN heap - 1 ELSE 0
    /\ Log(Ev(r, "kfree", 0, Zero32))
    /\ Upd(r, Return([rd[r] EXCEPT !.buf = <<>>], rd[r].ret))

\* the check without its second pattern: (otp_qp & 0xc0) == 0xc0
EccFlaggedOnlyC0(qp) == BitAnd16(qp, 192) = 192

\* ((otp_qp & 0xc0) == 0xc0) || (otp_qp & 0x20)
EccFlagged(qp) == BitAnd16(qp, 192) = 192 \/ BitAnd16(qp, 32) # 0

(* --------------------------- rk3568_otp_read -------------------------- *)
Rk3568Addr(r) ==
    /\ rd[r].pc = "rk3568_addr"
    /\ LET s == rounddown(rd[r].offset, RK3568_NBYTES) \div RK3568_NBYTES
           e == roundup(rd[r].offset + rd[r].bytes, RK3568_NBYTES) \div RK3568_NBYTES
       IN Upd(r, [rd[r] EXCEPT !.addr_start = s, !.addr_end = e,
                               !.addr_offset = rd[r].offset % RK3568_NBYTES,
                               !.addr_len = e - s, !.i = 0, !.ret = 0,
                               !.pc = "rk3568_kzalloc"])
    /\ UNCHANGED <<gen, lock, hw, heap, trace, wrun, timedout>>

\* a failed allocation leaves through disable_clks instead of returning
Rk3568KzallocGotoDisable(r, ok) ==
    /\ rd[r].pc = "rk3568_kzalloc"
    /\ ok \/ rd[r].addr_len > 0
    /\ IF ok
       THEN Kzalloc(r, rd[r], RK3568_NBYTES, ok, "rk3568_clk_enable")
       ELSE /\ heap' = heap
            /\ Log(Ev(r, "kzalloc_failed", 0, Zero32))
            /\ Upd(r, [rd[r] EXCEPT !.ret = -ENOMEM, !.fail = "oom",
                                    !.pc = "rk3568_disable_clks"])
    /\ UNCHANGED <<gen, lock, hw>>

Rk3568Kzalloc(r, ok) ==
    /\ rd[r].pc = "rk3568_kzalloc"
    /\ Kzalloc(r, rd[r], RK3568_NBYTES, ok, "rk3568_clk_enable")
    /\ UNCHANGED <<gen, lock, hw>>

\* a failed clock enable returns at once instead of going to out
Rk3568ClkEnableReturns(r, e) ==
    /\ rd[r].pc = "rk3568_clk_enable"
    /\ ClkEnable(r, e)
    /\ IF e = 0
       THEN Upd(r, CallReset([rd[r] EXCEPT !.ret = 0], "rk3568_reset_ret"))
       ELSE Upd(r, Return([rd[r] EXCEPT !.fail = "clk"], e))
    /\ UNCHANGED <<gen, lock, heap>>

Rk3568ClkEnable(r, e) ==
    /\ rd[r].pc = "rk3568_clk_enable"
    /\ ClkEnable(r, e)
    /\ IF e = 0
       THEN Upd(r, CallReset([rd[r] EXCEPT !.ret = 0], "rk3568_reset_ret"))
       ELSE Upd(r, [rd[r] EXCEPT !.ret = e, !.fail = "clk", !.pc = "rk3568_out"])
    /\ UNCHANGED <<gen, lock, heap>>

Rk3568ResetRet(r) ==
    /\ rd[r].pc = "rk3568_reset_ret"
    /\ IF rd[r].ret # 0
       THEN Upd(r, [rd[r] EXCEPT !.pc = "rk3568_disable_clks"])
       ELSE Upd(r, CallEcc(rd[r], TRUE, "rk3568_ecc_ret"))
    /\ UNCHANGED <<gen, lock, hw, heap, trace, wrun, timedout>>

Rk3568EccRet(r) ==
    /\ rd[r].pc = "rk3568_ecc_ret"
    /\ IF rd[r].ret < 0
       THEN Upd(r, [rd[r] EXCEPT !.pc = "rk3568_disable_clks"])
       ELSE Upd(r, [rd[r] EXCEPT !.pc = "rk3568_use_user"])
    /\ UNCHANGED <<gen, lock, hw, heap, trace, wrun, timedout>>

Rk3568UseUser(r) ==
    /\ rd[r].pc = "rk3568_use_user"
    /\ Writel(r, OTPC_USER_CTRL, Or32(OTPC_USE_USER, OTPC_USE_USER_MASK))
    /\ Upd(r, [rd[r] EXCEPT !.pc = "rk3568_loop"])
    /\ UNCHANGED <<gen, lock, heap>>

\* while (addr_len--) ... ; after the loop memcpy(val, buf + addr_offset, bytes)
Rk3568Loop(r) ==
    /\ rd[r].pc = "rk3568_loop"
    /\ IF rd[r].addr_len # 0
       THEN Upd(r, [rd[r] EXCEPT !.addr_len = @ - 1, !.pc = "rk3568_user_addr"])
       ELSE Upd(r, [rd[r] EXCEPT !.val = MemcpyOut(@, rd[r].buf, rd[r].addr_offset,
                                                   rd[r].bytes),
                                 !.pc = "rk3568_read_end"])
    /\ UNCHANGED <<gen, lock, hw, heap, trace, wrun, timedout>>

Rk3568UserAddr(r) ==
    /\ rd[r].pc = "rk3568_user_addr"
    /\ Writel(r, OTPC_USER_ADDR, Or32(U32(0, rd[r].addr_start), OTPC_USER_ADDR_MASK))
    /\ Upd(r, [rd[r] EXCEPT !.addr_start = @ + 1, !.pc = "rk3568_fsm"])
    /\ UNCHANGED <<gen, lock, heap>>

Rk3568Fsm(r) ==
    /\ rd[r].pc = "rk3568_fsm"
    /\ Writel(r, OTPC_USER_ENABLE, Or32(OTPC_USER_FSM_ENABLE, OTPC_USER_FSM_ENABLE_MASK))
    /\ Upd(r, CallWait(rd[r], OTPC_USER_DONE, "rk3568_wait_ret"))
    /\ UNCHANGED <<gen, lock, heap>>

\* a timed-out cycle leaves through disable_clks instead of read_end
Rk3568WaitRetGotoDisable(r) ==
    /\ rd[r].pc = "rk3568_wait_ret"
    /\ IF rd[r].ret < 0
       THEN Upd(r, [rd[r] EXCEPT !.pc = "rk3568_disable_clks"])
       ELSE Upd(r, [rd[r] EXCEPT !.pc = "rk3568_read_qp"])
    /\ UNCHANGED <<gen, lock, hw, heap, trace, wrun, timedout>>

Rk3568WaitRet(r) ==
    /\ rd[r].pc = "rk3568_wait_ret"
    /\ IF rd[r].ret < 0
       THEN Upd(r, [rd[r] EXCEPT !.pc = "rk3568_read_end"])
       ELSE Upd(r, [rd[r] EXCEPT !.pc = "rk3568_read_qp"])
    /\ UNCHANGED <<gen, lock, hw, heap, trace, wrun, timedout>>

\* otp_qp = readl(OTPC_USER_QP) and the ECC check on it
Rk3568ReadQp(r) ==
    /\ rd[r].pc = "rk3568_read_qp"
    /\ Log(Ev(r, "readl", OTPC_USER_QP, U32(0, hw.qp)))
    /\ IF EccFlagged(hw.qp)
       THEN Upd(r, [rd[r] EXCEPT !.otp_qp = hw.qp, !.ret = -EIO, !.fail = "ecc",
                                 !.pc = "rk3568_read_end"])
       ELSE Upd(r, [rd[r] EXCEPT !.otp_qp = hw.qp, !.pc = "rk3568_read_q"])
    /\ UNCHANGED <<gen, lock, hw, heap>>

\* out_value = readl(OTPC_USER_Q); memcpy(&buf[i], &out_value, RK3568_NBYTES)
Rk3568ReadQ(r) ==
    /\ rd[r].pc = "rk3568_read_q"
    /\ Log(Ev(r, "readl", OTPC_USER_Q, hw.q))
    /\ Upd(r, [rd[r] EXCEPT !.out_value = hw.q,
                            !.buf = MemcpyWord(@, rd[r].i, hw.q, RK3568_NBYTES),
                            !.i = @ + RK3568_NBYTES,
                            !.pc = "rk3568_loop"])
    /\ UNCHANGED <<gen, lock, hw, heap>>

Rk3568ReadEnd(r) ==
    /\ rd[r].pc = "rk3568_read_end"
    /\ Writel(r, OTPC_USER_CTRL, Or32(Zero32, OTPC_USE_USER_MASK))
    /\ Upd(r, [rd[r] EXCEPT !.pc = "rk3568_disable_clks"])
    /\ UNCHANGED <<gen, lock, heap>>

Rk3568DisableClks(r) ==
    /\ rd[r].pc = "rk3568_disable_clks"
    /\ ClkDisable(r)
    /\ Upd(r, [rd[r] EXCEPT !.pc = "rk3568_out"])
    /\ UNCHANGED <<gen, lock, heap>>

Rk3568Out(r) ==
    /\ rd[r].pc = "rk3568_out"
    /\ Kfree(r)
    /\ UNCHANGED <<gen, lock, hw>>

(* --------------------------- rk3588_otp_read -------------------------- *)
\* the range check without the clamp of bytes
Rk3588RangeNoClamp(r) ==
    /\ rd[r].pc = "rk3588_range"
    /\ IF rd[r].offset >= FuseSize
       THEN Upd(r, Return([rd[r] EXCEPT !.fail = "range"], -ENOMEM))
       ELSE Upd(r, [rd[r] EXCEPT !.ret = 0, !.i = 0, !.pc = "rk3588_addr"])
    /\ UNCHANGED <<gen, lock, hw, heap, trace, wrun, timedout>>

\* if (offset >= size) return -ENOMEM; if (offset + bytes > size) bytes = size - offset
Rk3588Range(r) ==
    /\ rd[r].pc = "rk3588_range"
    /\ IF rd[r].offset >= FuseSize
       THEN Upd(r, Return([rd[r] EXCEPT !.fail = "range"], -ENOMEM))
       ELSE Upd(r, [rd[r] EXCEPT !.bytes = IF rd[r].offset + @ > FuseSize
                                           THEN FuseSize - rd[r].offset ELSE @,
                                 !.ret = 0, !.i = 0,
                                 !.pc = "rk3588_addr"])
    /\ UNCHANGED <<gen, lock, hw, heap, trace, wrun, timedout>>

Rk3588Addr(r) ==
    /\ rd[r].pc = "rk3588_addr"
    /\ LET s == rounddown(rd[r].offset, RK3588_NBYTES) \div RK3588_NBYTES
           e == roundup(rd[r].offset + rd[r].bytes, RK3588_NBYTES) \div RK3588_NBYTES
       IN Upd(r, [rd[r] EXCEPT !.addr_start = s + RK3588_NO_SECURE_OFFSET,
                               !.addr_end = e,
                               !.addr_offset = rd[r].offset % RK3588_NBYTES,
                               !.addr_len = e - s,
                               !.pc = "rk3588_kzalloc"])
    /\ UNCHANGED <<gen, lock, hw, heap, trace, wrun, timedout>>

Rk3588Kzalloc(r, ok) ==
    /\ rd[r].pc = "rk3588_kzalloc"
    /\ Kzalloc(r, rd[r], RK3588_NBYTES, ok, "rk3588_clk_enable")
    /\ UNCHANGED <<gen, lock, hw>>

\* the result of the clock enable ignored: the engine goes on to its cycles
Rk3588ClkEnableIgnoresError(r, e) ==
    /\ rd[r].pc = "rk3588_clk_enable"
    /\ ClkEnable(r, e)
    /\ Upd(r, [rd[r] EXCEPT !.ret = 0, !.pc = "rk3588_loop"])
    /\ UNCHANGED <<gen, lock, heap>>

Rk3588ClkEnable(r, e) ==
    /\ rd[r].pc = "rk3588_clk_enable"
    /\ ClkEnable(r, e)
    /\ IF e = 0
       THEN Upd(r, [rd[r] EXCEPT !.ret = 0, !.pc = "rk3588_loop"])
       ELSE Upd(r, [rd[r] EXCEPT !.ret = e, !.fail = "clk", !.pc = "rk3588_out"])
    /\ UNCHANGED <<gen, lock, heap>>

\* while (addr_len--) ... ; after the loop memcpy(val, buf + addr_offset, bytes)
Rk3588Loop(r) ==
    /\ rd[r].pc = "rk3588_loop"
    /\ IF rd[r].addr_len # 0
       THEN Upd(r, [rd[r] EXCEPT !.addr_len = @ - 1, !.pc = "rk3588_auto_ctrl"])
       ELSE Upd(r, [rd[r] EXCEPT !.val = MemcpyOut(@, rd[r].buf, rd[r].addr_offset,
                                                   rd[r].bytes),
                                 !.pc = "rk3588_read_end"])
    /\ UNCHANGED <<gen, lock, hw, heap, trace, wrun, timedout>>

\* the word written to the auto-control register for word address a
AutoCtrlWord(a) ==
    Or32(Shl16(a), U32(0, RK3588_BURST_NUM * (2 ^ RK3588_BURST_SHIFT)))

Rk3588AutoCtrl(r) ==
    /\ rd[r].pc = "rk3588_auto_ctrl"
    /\ Writel(r, RK3588_OTPC_AUTO_CTRL, AutoCtrlWord(rd[r].addr_start))
    /\ Upd(r, [rd[r] EXCEPT !.pc = "rk3588_auto_en"])
    /\ UNCHANGED <<gen, lock, heap>>

Rk3588AutoEn(r) ==
    /\ rd[r].pc = "rk3588_auto_en"
    /\ Writel(r, RK3588_OTPC_AUTO_EN, U32(0, RK3588_AUTO_EN))
    /\ Upd(r, CallWait(rd[r], RK3588_RD_DONE, "rk3588_wait_ret"))
    /\ UNCHANGED <<gen, lock, heap>>

\* a timed-out cycle leaves through the copy-out that follows the loop
Rk3588WaitRetCopiesOut(r) ==
    /\ rd[r].pc = "rk3588_wait_ret"
    /\ IF rd[r].ret < 0
       THEN Upd(r, [rd[r] EXCEPT !.val = MemcpyOut(@, rd[r].buf, rd[r].addr_offset,
                                                   rd[r].bytes),
                                 !.pc = "rk3588_read_end"])
       ELSE Upd(r, [rd[r] EXCEPT !.pc = "rk3588_read_dout"])
    /\ UNCHANGED <<gen, lock, hw, heap, trace, wrun, timedout>>

\* a timed-out cycle leaves through out instead of read_end
Rk3588WaitRetGotoOut(r) ==
    /\ rd[r].pc = "rk3588_wait_ret"
    /\ IF rd[r].ret < 0
       THEN Upd(r, [rd[r] EXCEPT !.pc = "rk3588_out"])
       ELSE Upd(r, [rd[r] EXCEPT !.pc = "rk3588_read_dout"])
    /\ UNCHANGED <<gen, lock, hw, heap, trace, wrun, timedout>>

Rk3588WaitRet(r) ==
    /\ rd[r].pc = "rk3588_wait_ret"
    /\ IF rd[r].ret < 0
       THEN Upd(r, [rd[r] EXCEPT !.pc = "rk3588_read_end"])
       ELSE Upd(r, [rd[r] EXCEPT !.pc = "rk3588_read_dout"])
    /\ UNCHANGED <<gen, lock, hw, heap, trace, wrun, timedout>>

\* the loop without addr_start++: every cycle programs the first word address
Rk3588ReadDoutNoAdvance(r) ==
    /\ rd[r].pc = "rk3588_read_dout"
    /\ Log(Ev(r, "readl", RK3588_OTPC_DOUT0, hw.q))
    /\ Upd(r, [rd[r] EXCEPT !.out_value = hw.q,
                            !.buf = MemcpyWord(@, rd[r].i, hw.q, RK3588_NBYTES),
                            !.i = @ + RK3588_NBYTES,
                            !.pc = "rk3588_loop"])
    /\ UNCHANGED <<gen, lock, hw, heap>>

\* out_value = readl(DOUT0); memcpy(&buf[i], &out_value, 4); i += 4; addr_start++
Rk3588ReadDout(r) ==
    /\ rd[r].pc = "rk3588_read_dout"
    /\ Log(Ev(r, "readl", RK3588_OTPC_DOUT0, hw.q))
    /\ Upd(r, [rd[r] EXCEPT !.out_value = hw.q,
                            !.buf = MemcpyWord(@, rd[r].i, hw.q, RK3588_NBYTES),
                            !.i = @ + RK3588_NBYTES,
                            !.addr_start = @ + 1,
                            !.pc = "rk3588_loop"])
    /\ UNCHANGED <<gen, lock, hw, heap>>

Rk3588ReadEnd(r) ==
    /\ rd[r].pc = "rk3588_read_end"
    /\ ClkDisable(r)
    /\ Upd(r, [rd[r] EXCEPT !.pc = "rk3588_out"])
    /\ UNCHANGED <<gen, lock, heap>>

Rk3588Out(r) ==
    /\ rd[r].pc = "rk3588_out"
    /\ Kfree(r)
    /\ UNCHANGED <<gen, lock, hw>>

(* --------------------------- the environment -------------------------- *)
\* what the clock, reset and allocator calls may return, what the macro may
\* report, and whether a cycle may fail to complete in the poll window
ClkErrors == {-EINVAL}
ResetErrors == {-EIO}
QpClean == {128}
QpFlagged == {192, 32}

AnyEnv == [clk |-> {0} \cup ClkErrors, rst |-> {0} \cup ResetErrors,
           alloc |-> BOOLEAN, qp |-> QpClean \cup QpFlagged, giveup |-> TRUE,
           req |-> Requests]
\* every call succeeds, every cycle completes in time, no ECC flag is raised
GoodEnv == [clk |-> {0}, rst |-> {0}, alloc |-> {TRUE}, qp |-> QpClean,
            giveup |-> FALSE, req |-> Requests]

Step(r, env) ==
    \/ Call(r)
    \/ MutexLock(r, env.req)
    \/ Dispatch(r)
    \/ MutexUnlock(r)
    \/ \E e \in env.rst : ResetAssert(r, e)
    \/ \E e \in env.rst : ResetDeassert(r, e)
    \/ WaitPoll(r, env.giveup)
    \/ WaitClear(r)
    \/ EccWrite(r)
    \/ EccRet(r)
    \/ \E e \in env.clk : Px30ClkEnable(r, e)
    \/ Px30ResetRet(r)
    \/ Px30EccRet(r)
    \/ Px30UseUser(r)
    \/ Px30Loop(r)
    \/ Px30Addr(r)
    \/ Px30Fsm(r)
    \/ Px30WaitRet(r)
    \/ Px30Readb(r)
    \/ Px30ReadEnd(r)
    \/ Px30DisableClks(r)
    \/ Rk3568Addr(r)
    \/ \E ok \in env.alloc : Rk3568Kzalloc(r, ok)
    \/ \E e \in env.clk : Rk3568ClkEnable(r, e)
    \/ Rk3568ResetRet(r)
    \/ Rk3568EccRet(r)
    \/ Rk3568UseUser(r)
    \/ Rk3568Loop(r)
    \/ Rk3568UserAddr(r)
    \/ Rk3568Fsm(r)
    \/ Rk3568WaitRet(r)
    \/ Rk3568ReadQp(r)
    \/ Rk3568ReadQ(r)
    \/ Rk3568ReadEnd(r)
    \/ Rk3568DisableClks(r)
    \/ Rk3568Out(r)
    \/ Rk3588Range(r)
    \/ Rk3588Addr(r)
    \/ \E ok \in env.alloc : Rk3588Kzalloc(r, ok)
    \/ \E e \in env.clk : Rk3588ClkEnable(r, e)
    \/ Rk3588Loop(r)
    \/ Rk3588AutoCtrl(r)
    \/ Rk3588AutoEn(r)
    \/ Rk3588WaitRet(r)
    \/ Rk3588ReadDout(r)
    \/ Rk3588ReadEnd(r)
    \/ Rk3588Out(r)

Next == (\E r \in Readers : Step(r, AnyEnv)) \/ HwDone(AnyEnv.qp)

Spec == Init /\ [][Next]_vars

\* the environment of a healthy controller
NextGood == (\E r \in Readers : Step(r, GoodEnv)) \/ HwDone(GoodEnv.qp)

SpecGood == Init /\ [][NextGood]_vars

(* ------------------- a context with no engine bound ------------------- *)
\* rockchip_otp_read on a context whose descriptor is missing or binds no
\* reg_read: the case its test of otp->data and otp->data->reg_read guards
InitNoStrategy ==
    /\ gen = "none"
    /\ lock = 0
    /\ rd = [r \in Readers |-> InitReader]
    /\ hw = InitHw
    /\ heap = 0
    /\ trace = [r \in Readers |-> <<>>]
    /\ wrun = [r \in Readers |-> "none"]
    /\ timedout = FALSE

NextNoStrategy ==
    \E r \in Readers : Call(r) \/ MutexLock(r, Requests) \/ Dispatch(r) \/ MutexUnlock(r)

SpecNoStrategy == InitNoStrategy /\ [][NextNoStrategy]_vars

(* --------------------------- fair scheduling -------------------------- *)
\* every caller that can take a step eventually takes one; nothing is asked
\* of the controller, which may leave any cycle unfinished
\* whether a read returns depends on how many cycles it runs, not on which
\* bytes it reads: the callers here all ask for the last MaxLen bytes, the
\* request with the most cycles in each engine
LongestRequest == {<<FuseSize - MaxLen, MaxLen>>}
FairEnv == [AnyEnv EXCEPT !.req = LongestRequest]

NextFair == (\E r \in Readers : Step(r, FairEnv)) \/ HwDone(FairEnv.qp)

Fairness == \A r \in Readers : WF_vars(Step(r, FairEnv))

SpecFair == Init /\ [][NextFair]_vars /\ Fairness

(* ------------------------- reading the trace -------------------------- *)
\* the engine of reader r has returned to rockchip_otp_read (lock still held)
EngineReturned(r) == rd[r].pc = "mutex_unlock"
\* rockchip_otp_read has returned to its caller
Returned(r) == rd[r].pc = "done"

\* the places of r's trace where it did op
Idx(r, op) == {i \in DOMAIN trace[r] : trace[r][i].op = op}
\* the places of r's trace where it stored to / loaded from register reg
IdxW(r, reg) == {i \in Idx(r, "writel") : trace[r][i].reg = reg}
IdxR(r, reg) == {i \in DOMAIN trace[r] : /\ trace[r][i].op \in {"readl", "readb"}
                                         /\ trace[r][i].reg = reg}

(* -------------------------------- C1 ---------------------------------- *)
\* C1: the register writes the controller sees are the reads' complete write
\* sequences one after another: the writes of a read form a single run, no
\* write of another read falls between two of them.
C1_WritesSerialized ==
    \A r \in Readers : wrun[r] # "split"

\* a read is in the middle of its register writes while another caller is
\* blocked on the mutex
C1_Witness ==
    \E r, q \in Readers :
        /\ lock = r /\ wrun[r] = "open"
        /\ Cardinality(Idx(r, "writel")) >= 2
        /\ rd[q].pc = "mutex_lock"

(* -------------------------------- C2 ---------------------------------- *)
\* the caller's buffer of r holds the fuse slice it asked for
Delivered(r) == rd[r].val = FuseSlice(rd[r].req_off, rd[r].req_len)

\* C2 as stated: on a healthy controller every read of (offset, len) with
\* offset + len <= size succeeds and delivers the fuse slice [offset, offset+len),
\* in each of the three engines.
C2_SliceAsStated ==
    \A r \in Readers :
        (EngineReturned(r) /\ rd[r].req_off + rd[r].req_len <= FuseSize) =>
            (rd[r].ret = 0 /\ Delivered(r))

\* C2 amended: the same, for requests that rk3588_otp_read does not reject,
\* that is with offset < size in GEN-C (it fails a read at offset = size even
\* when len = 0).
C2_Slice ==
    \A r \in Readers :
        (/\ EngineReturned(r)
         /\ rd[r].req_off + rd[r].req_len <= FuseSize
         /\ gen = "C" => rd[r].req_off < FuseSize)
        => (rd[r].ret = 0 /\ Delivered(r))

\* a word-granular engine delivered a slice that starts and ends inside a word
C2_Witness ==
    \E r \in Readers :
        /\ EngineReturned(r)
        /\ gen \in {"B", "C"}
        /\ rd[r].req_off % 2 = 1 /\ rd[r].req_len = 2
        /\ rd[r].ret = 0 /\ Delivered(r)

(* -------------------------------- C3 ---------------------------------- *)
\* C3: when an engine returns, its read has disabled the clock group exactly
\* once after its successful enable, on every exit path, and not at all if
\* the enable failed; with no read in progress the enable count is zero.
C3_ClockBalanced ==
    /\ \A r \in Readers :
         EngineReturned(r) =>
            LET en == Idx(r, "clk_enable")
                dis == Idx(r, "clk_disable")
            IN /\ Cardinality(en) <= 1
               /\ Cardinality(dis) = Cardinality(en)
               /\ \A i \in en, j \in dis : i < j
               /\ Idx(r, "clk_enable_failed") # {} => en = {} /\ dis = {}
    /\ lock = 0 => hw.clk = 0

\* an error path after a successful enable: a read that timed out has
\* returned, after an earlier read on the controller
C3_Witness ==
    \E r \in Readers :
        /\ EngineReturned(r)
        /\ rd[r].fail = "timeout"
        /\ Idx(r, "clk_enable") # {}
        /\ \E q \in Readers : q # r /\ Returned(q)

(* -------------------------------- C4 ---------------------------------- *)
\* C4 as stated: when a GEN-A or GEN-B read returns, the reset line is not
\* left asserted, also when the read failed inside the reset helper.
C4_ResetReleasedAsStated ==
    \A r \in Readers :
        (EngineReturned(r) /\ gen \in {"A", "B"}) => ~hw.rst

\* C4 amended: when a GEN-A or GEN-B read returns, the reset line is released
\* if the read's pulse succeeded, is as the read found it if its assert (or
\* its clock enable) failed, and is left asserted if its deassert failed.
C4_ResetReleased ==
    \A r \in Readers :
        (EngineReturned(r) /\ gen \in {"A", "B"}) =>
            /\ Idx(r, "reset_deassert") # {} => ~hw.rst
            /\ Idx(r, "reset_deassert_failed") # {} => hw.rst
            /\ Idx(r, "reset_assert") = {} => hw.rst = rd[r].rst_in

\* a read has returned after its reset helper failed at the assert, on a
\* line it found released
C4_Witness ==
    \E r \in Readers :
        /\ EngineReturned(r) /\ gen \in {"A", "B"}
        /\ rd[r].fail = "reset_assert"
        /\ ~hw.rst

(* -------------------------------- C5 ---------------------------------- *)
\* the stores of r to OTPC_USER_CTRL that select / deselect the user interface
UserSelects(r) == {i \in IdxW(r, OTPC_USER_CTRL) : trace[r][i].val.lo % 2 = 1}
UserClears(r) ==
    {i \in IdxW(r, OTPC_USER_CTRL) :
        trace[r][i].val.lo % 2 = 0 /\ trace[r][i].val.hi % 2 = 1}

\* C5: in GEN-A and GEN-B every select of the user interface is followed by a
\* clear that comes before the clock disable, on every exit path, and the
\* interface is not selected when the read returns.
C5_UserInterfaceCleared ==
    \A r \in Readers :
        (EngineReturned(r) /\ gen \in {"A", "B"}) =>
            /\ ~hw.use_user
            /\ \A i \in UserSelects(r) :
                 \E j \in UserClears(r) :
                    /\ i < j
                    /\ Idx(r, "clk_disable") # {}
                    /\ \A d \in Idx(r, "clk_disable") : j < d

\* a read that selected the user interface and then timed out has returned
C5_Witness ==
    \E r \in Readers :
        /\ EngineReturned(r) /\ gen = "B"
        /\ rd[r].fail = "timeout"
        /\ UserSelects(r) # {}

(* -------------------------------- C6 ---------------------------------- *)
\* the claim's two flag patterns, on the parity/status word read back
QpMatches(qp) == (qp \div 64) % 4 = 3 \/ (qp \div 32) % 2 = 1
FlaggedQpReads(r) == {i \in IdxR(r, OTPC_USER_QP) : QpMatches(trace[r][i].val.lo)}
Untouched(r) == \A j \in DOMAIN rd[r].val : rd[r].val[j] = Unwritten

\* C6: a GEN-B read that read back a flagged QP word never reads the data
\* register afterwards, returns -EIO, and leaves the caller's buffer as it was.
C6_EccAbort ==
    \A r \in Readers :
        (gen = "B" /\ FlaggedQpReads(r) # {}) =>
            /\ \A i \in FlaggedQpReads(r), j \in IdxR(r, OTPC_USER_Q) : j < i
            /\ Untouched(r)
            /\ EngineReturned(r) => rd[r].ret = -EIO

\* the second word of a request was flagged after a clean first word was read
C6_Witness ==
    \E r \in Readers :
        /\ EngineReturned(r) /\ gen = "B"
        /\ FlaggedQpReads(r) # {}
        /\ IdxR(r, OTPC_USER_Q) # {}
        /\ rd[r].req_len > 0

(* -------------------------------- C7 ---------------------------------- *)
\* C7: on a healthy controller a GEN-C read with offset < size < offset + len
\* succeeds, writes the fuse slice [offset, size) to the first size - offset
\* bytes of the caller's buffer and writes none of the bytes after them.
C7_Clamp ==
    \A r \in Readers :
        (/\ EngineReturned(r) /\ gen = "C"
         /\ rd[r].req_off < FuseSize
         /\ rd[r].req_off + rd[r].req_len > FuseSize)
        => /\ rd[r].ret = 0
           /\ \A j \in 1..rd[r].req_len :
                rd[r].val[j] = IF j <= FuseSize - rd[r].req_off
                               THEN FuseByte(rd[r].req_off + j - 1)
                               ELSE Unwritten

\* a request reaching past the end of the fuses was served
C7_Witness ==
    \E r \in Readers :
        /\ EngineReturned(r) /\ gen = "C"
        /\ rd[r].req_off = FuseSize - 1 /\ rd[r].req_len = MaxLen
        /\ rd[r].ret = 0
        /\ rd[r].val[1] = FuseByte(FuseSize - 1)

(* -------------------------------- C8 ---------------------------------- *)
\* the read of r failed before the engine reached the hardware
RejectedEarly(r) ==
    \/ gen = "C" /\ rd[r].req_off >= FuseSize
    \/ Idx(r, "kzalloc_failed") # {}

\* C8: a read rejected for its offset (GEN-C) or for lack of scratch memory
\* (GEN-B, GEN-C) fails without a clock, reset or register operation and
\* without touching the caller's buffer.
C8_NoHardwareTouched ==
    \A r \in Readers :
        (EngineReturned(r) /\ RejectedEarly(r)) =>
            /\ rd[r].ret < 0
            /\ \A i \in DOMAIN trace[r] : trace[r][i].op = "kzalloc_failed"
            /\ Untouched(r)
            /\ hw.clk = 0

\* a read failed for lack of memory after another read had used the hardware
C8_Witness ==
    \E r \in Readers :
        /\ EngineReturned(r) /\ Idx(r, "kzalloc_failed") # {}
        /\ rd[r].req_len > 0
        /\ hw # InitHw

(* -------------------------------- C9 ---------------------------------- *)
\* C9: a GEN-C read that starts at or past the fuse size fails with a status
\* other than the one a failed scratch allocation gives (-ENOMEM, line 312).
C9_OutOfRangeDistinct ==
    \A r \in Readers :
        (EngineReturned(r) /\ gen = "C" /\ rd[r].req_off >= FuseSize) =>
            (rd[r].ret < 0 /\ rd[r].ret # -ENOMEM)

(* -------------------------------- C10 --------------------------------- *)
\* C10: a poll makes at most MaxPolls further iterations; a read whose poll
\* gave up returns -ETIMEDOUT with the clock group disabled, the user
\* interface deselected and its scratch buffer freed, and a caller that has
\* returned does not hold the mutex.
C10_TimeoutReleases ==
    \A r \in Readers :
        /\ rd[r].polls <= MaxPolls
        /\ (EngineReturned(r) /\ rd[r].fail = "timeout") =>
              /\ rd[r].ret = -ETIMEDOUT
              /\ hw.clk = 0
              /\ ~hw.use_user
              /\ heap = 0 /\ rd[r].buf = <<>>
        /\ Returned(r) => lock # r

\* a read timed out in its second cycle, after the hardware had served the first
C10_Witness ==
    \E r \in Readers :
        /\ EngineReturned(r)
        /\ rd[r].fail = "timeout"
        /\ rd[r].ret = -ETIMEDOUT
        /\ Cardinality(IdxR(r, IF gen = "C" THEN RK3588_OTPC_DOUT0 ELSE OTPC_USER_Q)) = 1

(* -------------------------------- C11 --------------------------------- *)
\* the request of r is one its engine accepts
Accepted(r) ==
    /\ rd[r].req_off + rd[r].req_len <= FuseSize
    /\ gen = "C" => rd[r].req_off < FuseSize

\* C11: after a read on the controller has failed with timeout, a later read
\* that meets no fault of its own, and every cycle of which the hardware has
\* completed, returns success and delivers the fuse slice it asked for, as it
\* would have had the timed-out read never happened.
C11_ReadAfterTimeout ==
    \A r \in Readers :
        (/\ EngineReturned(r)
         /\ timedout
         /\ rd[r].fail = "none"
         /\ hw.busy = "idle"
         /\ Accepted(r))
        => (rd[r].ret = 0 /\ Delivered(r))

(* -------------------------------- C12 --------------------------------- *)
\* the stores of r to the auto-control register, and how many came before one
AutoCtrlWrites(r) == IdxW(r, RK3588_OTPC_AUTO_CTRL)
Rank(S, j) == Cardinality({k \in S : k < j})
\* len after the clamp to size - offset
ClampedLen(r) ==
    IF rd[r].req_off + rd[r].req_len > FuseSize
    THEN FuseSize - rd[r].req_off ELSE rd[r].req_len

\* C12: in a GEN-C read of (offset, len) the i-th store to the auto-control
\* register carries ((offset div 4 + 0x300 + i) << 16) | (1 << 8), and a
\* successful read makes ceil((offset + len') / 4) - offset div 4 such stores,
\* len' being len clamped to size - offset.
C12_AutoCtrlWords ==
    \A r \in Readers :
        gen = "C" =>
            /\ \A j \in AutoCtrlWrites(r) :
                 trace[r][j].val =
                    [hi |-> (rd[r].req_off \div 4) + 768 + Rank(AutoCtrlWrites(r), j),
                     lo |-> 256]
            /\ (EngineReturned(r) /\ rd[r].ret = 0) =>
                 Cardinality(AutoCtrlWrites(r)) =
                    ((rd[r].req_off + ClampedLen(r) + 3) \div 4) - (rd[r].req_off \div 4)

\* a read that spans two words has programmed both and returned success
C12_Witness ==
    \E r \in Readers :
        /\ EngineReturned(r) /\ gen = "C" /\ rd[r].ret = 0
        /\ rd[r].req_off % 4 = 3 /\ rd[r].req_len = 2
        /\ Cardinality(AutoCtrlWrites(r)) = 2

(* -------------------------------- C13 --------------------------------- *)
\* C13: with no engine bound, rockchip_otp_read returns -EINVAL without a
\* clock, reset, allocator or register operation, leaves the caller's buffer
\* and the controller as they were, and does not hold the mutex once it has
\* returned.
C13_NoStrategy ==
    \A r \in Readers :
        /\ (EngineReturned(r) /\ gen = "none") =>
              /\ rd[r].ret = -EINVAL
              /\ trace[r] = <<>> /\ wrun[r] = "none"
              /\ hw = InitHw /\ heap = 0
              /\ Untouched(r)
        /\ Returned(r) => lock # r

\* a caller with a buffer to fill is back from the dispatch, with no engine
\* bound, after another caller has returned
C13_Witness ==
    \E r \in Readers :
        /\ EngineReturned(r) /\ gen = "none"
        /\ rd[r].req_len > 0 /\ lock = r
        /\ \E q \in Readers : q # r /\ Returned(q)

(* -------------------------------- C14 --------------------------------- *)
\* the calls of r on the reset line, failed ones included
ResetOps(r) ==
    {i \in DOMAIN trace[r] :
        trace[r][i].op \in {"reset_assert", "reset_assert_failed",
                            "reset_deassert", "reset_deassert_failed"}}

\* C14: in a GEN-A or GEN-B read every call on the reset line comes after the
\* clock enable and before every register write, the assert before the
\* deassert, and a read that writes a register has made the complete pulse
\* first; a GEN-C read makes no call on the reset line.
C14_ResetOrder ==
    \A r \in Readers :
        LET ops == ResetOps(r)
            en == Idx(r, "clk_enable")
            wr == Idx(r, "writel")
            as == {i \in ops : trace[r][i].op = "reset_assert"}
            de == {i \in ops : trace[r][i].op = "reset_deassert"}
        IN  trace[r] # <<>> =>
              /\ gen \in {"A", "B"} =>
                    /\ \A i \in ops :
                          /\ \E c \in en : c < i
                          /\ \A w \in wr : i < w
                    /\ \A a \in as, d \in de : a < d
                    /\ wr # {} => (Cardinality(as) = 1 /\ Cardinality(de) = 1)
              /\ gen = "C" => ops = {}

\* a read has pulsed the reset line and gone on to program the controller
C14_Witness ==
    \E r \in Readers :
        /\ EngineReturned(r) /\ gen = "B" /\ rd[r].ret = 0 /\ rd[r].req_len > 0
        /\ Idx(r, "reset_deassert") # {}
        /\ IdxW(r, OTPC_SBPI_CTRL) # {}

(* -------------------------------- C15 --------------------------------- *)
\* C15: a GEN-B or GEN-C read frees the scratch buffer it allocated exactly
\* once, after the allocation and before it returns, whichever way it leaves;
\* while a read runs the outstanding buffers are those it allocated and has
\* not freed, and with no read in progress none is outstanding.
C15_ScratchFreed ==
    /\ \A r \in Readers :
         /\ (EngineReturned(r) /\ gen \in {"B", "C"}) =>
               /\ Cardinality(Idx(r, "kzalloc")) <= 1
               /\ Cardinality(Idx(r, "kfree")) = Cardinality(Idx(r, "kzalloc"))
               /\ \A a \in Idx(r, "kzalloc"), f \in Idx(r, "kfree") : a < f
               /\ rd[r].buf = <<>>
         /\ lock = r =>
               heap = Cardinality(Idx(r, "kzalloc")) - Cardinality(Idx(r, "kfree"))
    /\ lock = 0 => heap = 0

\* a read that failed its ECC check has returned, its scratch buffer freed
C15_Witness ==
    \E r \in Readers :
        /\ EngineReturned(r) /\ gen = "B"
        /\ rd[r].fail = "ecc"
        /\ Idx(r, "kzalloc") # {} /\ Idx(r, "kfree") # {}

(* -------------------------------- C16 --------------------------------- *)
\* C16: under fair scheduling a caller blocked on the mutex eventually
\* acquires it, and a caller that holds the mutex eventually returns from
\* rockchip_otp_read with the mutex released, whatever the controller, the
\* clocks, the reset line and the allocator do.
C16_EveryReadReturns ==
    \A r \in Readers :
        /\ (rd[r].pc = "mutex_lock") ~> (lock = r)
        /\ (lock = r) ~> (Returned(r) /\ lock # r)

\* a caller is blocked on the mutex while the holder polls a bit that is not set
C16_Witness ==
    \E r, q \in Readers :
        /\ rd[r].pc = "mutex_lock" /\ lock = q /\ q # r
        /\ rd[q].pc = "wait_poll" /\ rd[q].polls = MaxPolls
        /\ BitAnd16(hw.int_st, rd[q].flag) = 0

(* -------------------------------- C17 --------------------------------- *)
\* the cleanup operations: the user-interface clear, the clock disable and
\* the free of the scratch buffer
IsCleanup(e) ==
    \/ e.op \in {"clk_disable", "kfree"}
    \/ e.op = "writel" /\ e.reg = OTPC_USER_CTRL /\ e.val.lo % 2 = 0
\* the status each failing sub-step gives
StatusOf(f) ==
    CASE f = "clk" -> -EINVAL
      [] f \in {"reset_assert", "reset_deassert", "ecc"} -> -EIO
      [] f = "timeout" -> -ETIMEDOUT
      [] OTHER -> -ENOMEM

\* C17: from the step in which a sub-step of a read fails, the read's status is
\* that sub-step's and stays so until rockchip_otp_read returns, and every
\* clock, reset, allocator or register operation the read still makes is a
\* cleanup one: no address write, enable pulse, poll, status clear or data read.
C17_ShortCircuit ==
    [][\A r \in Readers :
          /\ rd'[r].fail # "none" => rd'[r].ret = StatusOf(rd'[r].fail)
          /\ rd[r].fail # "none" =>
                \/ Returned(r)'
                \/ /\ rd'[r].fail = rd[r].fail
                   /\ rd'[r].pc # "wait_poll"
                   /\ \/ trace'[r] = trace[r]
                      \/ /\ Len(trace'[r]) = Len(trace[r]) + 1
                         /\ IsCleanup(trace'[r][Len(trace'[r])])]_vars

\* a read that failed its ECC check after programming a cycle has cleared the
\* user interface, disabled the clocks and freed its buffer
C17_Witness ==
    \E r \in Readers :
        /\ EngineReturned(r) /\ gen = "B"
        /\ rd[r].fail = "ecc" /\ rd[r].ret = -EIO
        /\ UserClears(r) # {} /\ Idx(r, "clk_disable") # {}
        /\ IdxW(r, OTPC_USER_ADDR) # {}

(* -------------------------------- C18 --------------------------------- *)
\* the operations a cycle of the engine logs (4 in GEN-A; GEN-B reads the
\* parity word too), the first address and the number of cycles of a request
CycleLen == IF gen = "A" THEN 4 ELSE 5
FirstAddr(r) == IF gen = "A" THEN rd[r].req_off ELSE rd[r].req_off \div 2
NumCycles(r) ==
    IF gen = "A" THEN rd[r].req_len
    ELSE ((rd[r].req_off + rd[r].req_len + 1) \div 2) - (rd[r].req_off \div 2)

\* the operation at place p of r's trace is a store to reg / a load from reg
IsWrite(r, p, reg) ==
    p \in DOMAIN trace[r] /\ trace[r][p].op = "writel" /\ trace[r][p].reg = reg
IsRead(r, p, reg) ==
    p \in DOMAIN trace[r] /\ trace[r][p].op \in {"readl", "readb"} /\ trace[r][p].reg = reg

\* cycle k of r, whose operations start after place b: address write with
\* address a, FSM-enable pulse, done-status clear (made once the poll has
\* seen the bit), then the data read
CycleAt(r, b, a) ==
    /\ IsWrite(r, b + 1, OTPC_USER_ADDR) /\ trace[r][b + 1].val.lo = a
    /\ IsWrite(r, b + 2, OTPC_USER_ENABLE) /\ trace[r][b + 2].val.lo % 2 = 1
    /\ IsWrite(r, b + 3, OTPC_INT_STATUS) /\ trace[r][b + 3].val.lo = 4
    /\ IF gen = "A" THEN IsRead(r, b + 4, OTPC_USER_Q)
       ELSE IsRead(r, b + 4, OTPC_USER_QP) /\ IsRead(r, b + 5, OTPC_USER_Q)

\* byte m (from 0) of the data words r has read, in the order it read them
ReadByte(r, s, m) ==
    IF gen = "A" THEN trace[r][s + 4 * m + 4].val.lo
    ELSE LET w == trace[r][s + 5 * (m \div 2) + 5].val.lo
         IN IF m % 2 = 0 THEN w % 256 ELSE w \div 256

\* C18: a successful GEN-A read of (offset, len) runs exactly len cycles, with
\* addresses offset, offset + 1, ... in order; a successful GEN-B read runs
\* ceil((offset + len) / 2) - offset div 2 cycles with consecutive word
\* addresses from offset div 2; in each cycle the done status is cleared before
\* the data register is read, and the caller gets the bytes read, from byte
\* offset mod 2 of them on in GEN-B.
C18_Cycles ==
    \A r \in Readers :
        (EngineReturned(r) /\ gen \in {"A", "B"} /\ rd[r].ret = 0) =>
            /\ Cardinality(UserSelects(r)) = 1
            /\ \A s \in UserSelects(r) :
                 /\ \A k \in 0..(NumCycles(r) - 1) :
                      CycleAt(r, s + k * CycleLen, FirstAddr(r) + k)
                 /\ s + NumCycles(r) * CycleLen + 1 \in UserClears(r)
                 /\ \A j \in 1..rd[r].req_len :
                      rd[r].val[j] =
                         ReadByte(r, s, (IF gen = "A" THEN 0 ELSE rd[r].req_off % 2) + j - 1)
            /\ Cardinality(IdxW(r, OTPC_USER_ADDR)) = NumCycles(r)

\* a GEN-B read that starts and ends inside a word has run its two cycles
C18_Witness ==
    \E r \in Readers :
        /\ EngineReturned(r) /\ gen = "B" /\ rd[r].ret = 0
        /\ rd[r].req_off = 1 /\ rd[r].req_len = 2
        /\ Cardinality(IdxW(r, OTPC_USER_ADDR)) = 2
        /\ Cardinality(IdxR(r, OTPC_USER_Q)) = 2

(* -------------------------------- C19 --------------------------------- *)
\* the register loads and stores r has made
Accesses(r) == {i \in DOMAIN trace[r] : trace[r][i].op \in {"writel", "readl", "readb"}}
\* the positions from which the next step of the code loads or stores a
\* controller register (the poll's readl of the status register included)
AccessPcs ==
    {"wait_poll", "wait_clear", "ecc_write",
     "px30_use_user", "px30_addr", "px30_fsm", "px30_readb", "px30_read_end",
     "rk3568_use_user", "rk3568_user_addr", "rk3568_fsm", "rk3568_read_qp",
     "rk3568_read_q", "rk3568_read_end",
     "rk3588_auto_ctrl", "rk3588_auto_en", "rk3588_read_dout"}

\* C19: every register load or store of a reader, the SBPI sequence, the
\* status clear and the user-interface clear included, is made after that
\* reader's clock enable and before its clock disable, with the clock group on
\* and the mutex held by that reader.
C19_AccessGated ==
    \A r \in Readers :
        LET acc == Accesses(r)
            en == Idx(r, "clk_enable")
            dis == Idx(r, "clk_disable")
        IN  /\ acc # {} =>
                  /\ lock = r
                  /\ \A i \in acc :
                        /\ \E c \in en : c < i
                        /\ \A d \in dis : i < d
            /\ rd[r].pc \in AccessPcs =>
                  /\ lock = r
                  /\ hw.clk > 0
                  /\ en # {} /\ dis = {}

\* a read that timed out is about to clear the user interface, its clocks
\* still on, while another caller waits for the mutex
C19_Witness ==
    \E r, q \in Readers :
        /\ rd[r].pc \in {"px30_read_end", "rk3568_read_end"}
        /\ rd[r].fail = "timeout"
        /\ lock = r /\ hw.clk > 0
        /\ rd[q].pc = "mutex_lock"

(* -------------------------------- C20 --------------------------------- *)
\* the loads r has made of its engine's data register, and the words of its request
DataReads(r) == IdxR(r, IF gen = "C" THEN RK3588_OTPC_DOUT0 ELSE OTPC_USER_Q)
NumWords(r) ==
    IF gen = "C"
    THEN ((rd[r].req_off + ClampedLen(r) + 3) \div 4) - (rd[r].req_off \div 4)
    ELSE NumCycles(r)

\* C20: in GEN-B and GEN-C a read that fails leaves the caller's buffer as it
\* was, and the buffer is written only once every word of the request has been
\* read. In GEN-A a read that times out returns -ETIMEDOUT with the bytes of
\* its completed cycles in the first places of the buffer and the rest as it
\* was: exactly the first k bytes if the timeout is in cycle k (from 0).
C20_Delivery ==
    \A r \in Readers :
        /\ gen \in {"B", "C"} =>
              /\ (rd[r].fail # "none" \/ (EngineReturned(r) /\ rd[r].ret # 0)) => Untouched(r)
              /\ ~Untouched(r) => Cardinality(DataReads(r)) = NumWords(r)
        /\ (gen = "A" /\ EngineReturned(r) /\ rd[r].fail = "timeout") =>
              LET k == Cardinality(DataReads(r)) IN
              /\ rd[r].ret = -ETIMEDOUT
              /\ IdxW(r, OTPC_USER_ADDR) # {} => Cardinality(IdxW(r, OTPC_USER_ADDR)) = k + 1
              /\ k < rd[r].req_len \/ rd[r].req_len = 0
              /\ \A j \in 1..rd[r].req_len :
                    IF j <= k
                    THEN \E i \in DataReads(r) :
                            /\ Rank(DataReads(r), i) = j - 1
                            /\ rd[r].val[j] = trace[r][i].val.lo
                    ELSE rd[r].val[j] = Unwritten

\* a GEN-A read of two bytes timed out in cycle 1 and returned with byte 0 of
\* the buffer written and byte 1 not
C20_Witness ==
    \E r \in Readers :
        /\ EngineReturned(r) /\ gen = "A"
        /\ rd[r].fail = "timeout" /\ rd[r].req_len = 2
        /\ rd[r].val[1] # Unwritten /\ rd[r].val[2] = Unwritten

====
